---- MODULE Spec2Model ----
(***************************************************************************)
(* Handwriting synthesis model (modules.py): MixtureOfBivariateNormal,     *)
(* SimpleEncoder, GaussianAttention, RNNDecoder and Seq2Seq.               *)
(*                                                                         *)
(* Tensors are sequences indexed from 1: a (B, d) tensor is a sequence     *)
(* over the batch.  hidden_size and enc_size are 1, so a hidden state, a   *)
(* cell state and a context vector are one integer per batch element.      *)
(* Reals are fixed point: exp() results are in units of 1/FX, tanh()       *)
(* results in units of 1/RX, probabilities in units of 1/PX.  Python       *)
(* lists and the tensors that are updated in place live in `heap` and are  *)
(* named by reference, so that aliasing between caller and callee is kept. *)
(***************************************************************************)
EXTENDS Integers, Sequences, FiniteSets, TLC

\* ------------------------------------------------------------------ bounds
MaxLen == 3            \* longest stroke sequence / largest maxlen
MaxCtx == 2            \* longest context (character) sequence
MaxCalls == 2          \* decoder calls made by the step-level caller
MaxLayers == 3         \* largest n_layers
MaxSeed == 3           \* seeds of the random source are 0..MaxSeed
n_mixtures_attention == 2
n_mixtures_output == 2

FX == 4                \* scale of exp() results
RX == 5                \* scale of tanh() results
PX == 8                \* scale of probabilities and of uniform draws

BatchSizes == {1, 2}
Vocab == {0, 1}

\* ----------------------------------------------------------------- helpers
RECURSIVE SumSeq(_)
SumSeq(s) == IF s = <<>> THEN 0 ELSE Head(s) + SumSeq(Tail(s))

RECURSIVE Pow2(_)
Pow2(n) == IF n <= 0 THEN 1 ELSE 2 * Pow2(n - 1)

Abs(v) == IF v < 0 THEN -v ELSE v

\* F(v) with v evaluated once (a local variable assignment).
Bind(v, F(_)) == CHOOSE r \in {F(x) : x \in {v}} : TRUE

\* Activations of the recurrent cells and the raw outputs of the linear
\* layers are kept in -2..2.
Wrap(v) == ((v + 2) % 5) - 2

\* torch.exp in units of 1/FX: 2^z * FX, underflowing to 0.
Exp(z) == IF z < -2 THEN 0 ELSE Pow2(z + 2)

\* torch.tanh in units of 1/RX, strictly inside (-1, 1).
Tanh(z) == IF z <= -2 THEN -4 ELSE IF z = -1 THEN -3 ELSE IF z = 0 THEN 0
           ELSE IF z = 1 THEN 3 ELSE 4

\* torch.sigmoid in units of 1/PX, strictly inside (0, 1).
Sigmoid(z) == IF z <= -2 THEN 1 ELSE IF z = -1 THEN 2 ELSE IF z = 0 THEN 4
              ELSE IF z = 1 THEN 6 ELSE 7

\* sqrt(1 - rho^2) in units of 1/RX for rho in units of 1/RX; "nan" is
\* reported by the caller when 1 - rho^2 < 0.
Sqrt1mRho2(rho) == IF Abs(rho) = 0 THEN 5 ELSE IF Abs(rho) = 3 THEN 4
                   ELSE IF Abs(rho) = 4 THEN 3 ELSE 0

\* ------------------------------------------------------------- the heap
Alloc(hp, v) == Append(hp, v)
NewRef(hp) == Len(hp) + 1
Store(hp, ref, idx, v) == [hp EXCEPT ![ref] = [@ EXCEPT ![idx] = v]]

\* prev_states=None and a carried state (h-list, c-list, w, kappa).
NoState == [some |-> FALSE, h |-> 0, c |-> 0, w |-> <<>>, k |-> 0]
State(h, c, w, k) == [some |-> TRUE, h |-> h, c |-> c, w |-> w, k |-> k]

\* --------------------------------------------------------- nn.LSTMCell
\* One cell of layer l on one batch element: the new (h, c) is a function
\* of the input vector and the previous (h, c) of the cell.
LSTMCell(l, inp, h, c) ==
    LET gate == SumSeq(inp) + h + l + 1
        c1 == Wrap(c + gate)
    IN [h |-> Wrap(2 * c1 + gate), c |-> c1]

\* The cell over a batch: inp, h and c are sequences over the batch.
CellBatch(l, inp, h, c) ==
    LET r == [b \in 1..Len(inp) |-> LSTMCell(l, inp[b], h[b], c[b])]
    IN [h |-> [b \in 1..Len(inp) |-> r[b].h], c |-> [b \in 1..Len(inp) |-> r[b].c]]

\* ---------------------------------------------------- GaussianAttention
AttW(j) == IF j % 2 = 0 THEN 1 ELSE -1
AttB(j) == (j % 3) - 1

\* self.linear(h_t) for one batch element: 3 * n_mixtures raw values.
AttLinear(h) == [j \in 1..(3 * n_mixtures_attention) |-> Wrap(AttW(j) * h + AttB(j))]

\* Mutant of AttExp: the projection is used without torch.exp.
AttExp_raw(raw) == raw

\* torch.exp(self.linear(h_t)), applied elementwise.
AttExp(raw) == [j \in 1..Len(raw) |-> Exp(raw[j])]

\* phi for one batch element and one position u (0-based, as torch.arange).
Phi(alpha, beta, kappa, u) ==
    SumSeq([k \in 1..n_mixtures_attention |->
        (alpha[k] * Exp(-((beta[k] * (kappa[k] - FX * u) * (kappa[k] - FX * u)) \div (FX * FX * FX)))) \div FX])

\* Mutant of GaussianAttention: `k_tm1 += kappa`, the sum is accumulated
\* into the carried tensor, which is returned.
GaussianAttention_intoCarried(hp, h_t, k_tm1, cx) ==
    LET B == Len(cx)
        T == Len(cx[1])
        K == n_mixtures_attention
    IN Bind([b \in 1..B |-> AttExp(AttLinear(h_t[b]))], LAMBDA e :
       LET alpha == [b \in 1..B |-> SubSeq(e[b], 1, K)]
           beta == [b \in 1..B |-> SubSeq(e[b], K + 1, 2 * K)]
           dk == [b \in 1..B |-> SubSeq(e[b], 2 * K + 1, 3 * K)]
       IN Bind([b \in 1..B |-> [k \in 1..K |-> dk[b][k] + hp[k_tm1][b][k]]], LAMBDA kappa :
          Bind([b \in 1..B |-> [u \in 1..T |-> Phi(alpha[b], beta[b], kappa[b], u - 1)]], LAMBDA phi :
             [heap |-> [hp EXCEPT ![k_tm1] = kappa],
              w |-> [b \in 1..B |-> SumSeq([u \in 1..T |-> phi[b][u] * cx[b][u]])],
              phi |-> phi,
              kappa |-> k_tm1])))

\* GaussianAttention.forward(h_t, k_tm1, ctx) with k_tm1 a reference to the
\* carried kappa tensor.  kappa is a new tensor (a chunk of the exp output)
\* that is updated in place by `kappa += k_tm1`.
GaussianAttention(hp, h_t, k_tm1, cx) ==
    LET B == Len(cx)
        T == Len(cx[1])
        K == n_mixtures_attention
    IN Bind([b \in 1..B |-> AttExp(AttLinear(h_t[b]))], LAMBDA e :
       LET alpha == [b \in 1..B |-> SubSeq(e[b], 1, K)]
           beta == [b \in 1..B |-> SubSeq(e[b], K + 1, 2 * K)]
           dk == [b \in 1..B |-> SubSeq(e[b], 2 * K + 1, 3 * K)]
       IN Bind([b \in 1..B |-> [k \in 1..K |-> dk[b][k] + hp[k_tm1][b][k]]], LAMBDA kappa :
          Bind([b \in 1..B |-> [u \in 1..T |-> Phi(alpha[b], beta[b], kappa[b], u - 1)]], LAMBDA phi :
             [heap |-> Alloc(hp, kappa),
              w |-> [b \in 1..B |-> SumSeq([u \in 1..T |-> phi[b][u] * cx[b][u]])],
              phi |-> phi,
              kappa |-> NewRef(hp)])))

\* ------------------------------------------------------------ RNNDecoder
VARIABLES
    driver,       \* which entry point the caller exercises
    n_layers,     \* RNNDecoder n_layers (dec_n_layers)
    heap,         \* Python lists and in-place updated tensors, by reference
    pc,           \* position of the caller / of the running call
    fr,           \* locals of the running RNNDecoder.forward call
    prev_states,  \* the caller's carried decoder state (None or a 4-tuple)
    passed,       \* the prev_states argument of the latest decoder call
    snap,         \* the caller's copy of the contents of `passed` at the call
    calls,        \* decoder calls made so far by the step-level caller
    chars,        \* Seq2Seq input: character ids, (B, T)
    chars_mask,   \* Seq2Seq input: 1 = character, 0 = padding, (B, T)
    in_strokes,   \* Seq2Seq.forward input: ground-truth strokes, (B, Ts, 3)
    maxlen,       \* Seq2Seq.sample input
    rng,          \* the process-wide random source: seed and position
    ctx,          \* local of forward/sample: the masked encoder output
    x_t,          \* local of sample: the current input point, (B, 1, 3)
    strokes,      \* local of sample: the list of points collected so far
    it,           \* local of sample: the loop index i
    result,       \* what the latest Seq2Seq / distribution call returned
    first_result, \* the caller's copy of the result of its first sample call
    rounds,       \* sample calls started by the caller
    dist          \* a MixtureOfBivariateNormal built directly by the caller

\* Learned initial vectors: zero at construction.
h_0(l) == 0
c_0(l) == 0
w_0 == 0
k_0(k) == 0

\* self.output: a linear layer over the concatenated hidden states.
OutW(j, l) == ((j + l) % 3) - 1
OutB(j) == (j % 5) - 2
OutLinear(hs) ==
    [j \in 1..(6 * n_mixtures_output + 1) |->
        Wrap(SumSeq([l \in 1..Len(hs) |-> OutW(j, l) * hs[l]]) + OutB(j))]

\* Python indexing of a list: index p, negative p counting from the end.
PyGet(list, p) == IF p < 0 THEN list[Len(list) + p + 1] ELSE list[p + 1]

NoFrame == [strokes |-> <<>>, context |-> <<>>, h |-> 0, c |-> 0, w |-> <<>>,
            k |-> 0, phi |-> <<>>, outputs |-> <<>>, i |-> 0, err |-> "none"]

\* Lines 134-144: the state the loop starts from.  Without prev_states new
\* lists and tensors are built from the learned initial vectors; with
\* prev_states the caller's own objects are used.
DecEnter(hp, strk, context, prev) ==
    LET bsz == Len(strk)
        hl == [l \in 1..n_layers |-> [b \in 1..bsz |-> h_0(l)]]
        cl == [l \in 1..n_layers |-> [b \in 1..bsz |-> c_0(l)]]
        k0 == [b \in 1..bsz |-> [k \in 1..n_mixtures_attention |-> k_0(k)]]
        hp3 == Alloc(Alloc(Alloc(hp, hl), cl), k0)
        base == [NoFrame EXCEPT !.strokes = strk, !.context = context]
    IN IF ~prev.some
       THEN [heap |-> hp3,
             fr |-> [base EXCEPT !.h = Len(hp) + 1, !.c = Len(hp) + 2,
                                 !.w = [b \in 1..bsz |-> w_0], !.k = Len(hp) + 3]]
       ELSE [heap |-> hp,
             fr |-> [base EXCEPT !.h = prev.h, !.c = prev.c, !.w = prev.w, !.k = prev.k]]

\* Target slot of the j-th pass (j from 0) of the loop over self.layer_n.
LayerSlot(j) == j

\* Lines 153-157: the loop over zip(self.layer_n, h_tm1[1:], c_tm1[1:]),
\* from pass j on.  prevH and prevC are the slices taken when the loop
\* started; h_tm1[j-1] is read from the list as it is now.
RECURSIVE LayerLoop(_, _, _, _, _, _, _)
LayerLoop(hp0, f, j, prevH, prevC, xt, w) ==
    Bind(hp0, LAMBDA hp :
    IF j >= n_layers - 1 \/ j >= Len(prevH) THEN hp
    ELSE LET below == PyGet(hp[f.h], j - 1)
             inp == [b \in 1..Len(xt) |-> xt[b] \o <<w[b]>> \o <<below[b]>>]
         IN Bind(CellBatch(j + 1, inp, prevH[j + 1], prevC[j + 1]), LAMBDA r :
            LayerLoop(Store(Store(hp, f.h, LayerSlot(j) + 1, r.h), f.c, LayerSlot(j) + 1, r.c),
                      f, j + 1, prevH, prevC, xt, w)))

\* Lines 146-149: layer_0 on [x_t, w_tm1], written to slot 0 of both lists.
Layer0(hp, f, xt) ==
    LET inp0 == [b \in 1..Len(xt) |-> xt[b] \o <<f.w[b]>>]
    IN Bind(CellBatch(0, inp0, hp[f.h][1], hp[f.c][1]), LAMBDA r0 :
          Store(Store(hp, f.h, 1, r0.h), f.c, 1, r0.c))

\* Lines 159-160: the output vector of the step, per batch element.
StepOutput(hp, f) ==
    [b \in 1..Len(hp[f.h][1]) |-> OutLinear([l \in 1..Len(hp[f.h]) |-> hp[f.h][l][b]])]

\* Lines 145-160: one pass of the loop over the time steps.
DecIter(m0) ==
    Bind(m0, LAMBDA m :
    LET f == m.fr
        hp == m.heap
        xt == [b \in 1..Len(f.strokes) |-> f.strokes[b][f.i + 1]]
    IN IF Len(xt) # Len(f.w) \/ Len(xt) # Len(hp[f.h][1])
       THEN \* torch.cat / LSTMCell: sizes of tensors must match
            [heap |-> hp, fr |-> [f EXCEPT !.err = "RuntimeError"]]
       ELSE Bind(Layer0(hp, f, xt), LAMBDA hp1 :
            Bind(GaussianAttention(hp1, hp1[f.h][1], f.k, f.context), LAMBDA att :
            Bind(LayerLoop(att.heap, f, 0, Tail(att.heap[f.h]), Tail(att.heap[f.c]), xt, att.w),
                 LAMBDA hp3 :
                 [heap |-> hp3,
                  fr |-> [f EXCEPT !.w = att.w, !.phi = att.phi, !.k = att.kappa,
                                   !.outputs = Append(@, StepOutput(hp3, f)),
                                   !.i = @ + 1]]))))

\* Line 162: torch.stack(outputs, 1) and the carried state.
DecResult(m0) ==
    Bind(m0, LAMBDA m :
    [out |-> [b \in 1..Len(m.fr.strokes) |->
                 [t \in 1..Len(m.fr.outputs) |-> m.fr.outputs[t][b]]],
     states |-> State(m.fr.h, m.fr.c, m.fr.w, m.fr.k)])

\* The whole loop, for the callers that run the decoder as one call.
RECURSIVE DecLoop(_)
DecLoop(m0) ==
    Bind(m0, LAMBDA m :
    IF m.fr.err # "none" \/ m.fr.i >= Len(m.fr.strokes[1]) THEN m
    ELSE DecLoop(DecIter(m)))

\* RNNDecoder.forward(strk, context, prev_states) as one call.
RNNDecoder(hp, strk, context, prev) ==
    Bind(DecLoop(DecEnter(hp, strk, context, prev)), LAMBDA m :
        [heap |-> m.heap, err |-> m.fr.err,
         out |-> DecResult(m).out, states |-> DecResult(m).states])

\* --------------------------------------------- MixtureOfBivariateNormal
\* __init__ stores its four arguments as they are.
MixtureOfBivariateNormal(log_pi, mu, sigma, rho) ==
    [log_pi |-> log_pi, mu |-> mu, sigma |-> sigma, rho |-> rho]

\* Whether the float arithmetic of log_prob stays finite for one mixture
\* component: log(sigma) and log(1 - rho^2) need positive arguments.
FiniteDensity(sigma, rho) == sigma[1] > 0 /\ sigma[2] > 0 /\ Abs(rho) < RX

\* log_prob(x) for one (batch, time) position: the value is kept as the
\* term it is computed from, with the class of the resulting float.
LogProb(d, x) ==
    [cls |-> IF \A k \in 1..Len(d.rho) : FiniteDensity(d.sigma[k], d.rho[k])
             THEN "finite" ELSE "nonfinite",
     x |-> x, log_pi |-> d.log_pi, mu |-> d.mu, sigma |-> d.sigma, rho |-> d.rho]

\* The random source: the u-th uniform draw of a seed, in 0..PX-1.
Uniform(g) == ((g.seed + 1) * (2 * g.pos + 1) + (g.pos \div 2)) % PX
Advance(g, n) == [g EXCEPT !.pos = @ + n]
At(g, n) == Uniform(Advance(g, n))

\* multinomial(1) on unnormalised weights: inverse CDF of a uniform draw.
RECURSIVE Multinomial(_, _, _, _)
Multinomial(weights, u, k, acc) ==
    IF k >= Len(weights) \/ (acc + weights[k]) * PX > u * SumSeq(weights) THEN k
    ELSE Multinomial(weights, u, k + 1, acc + weights[k])

\* torch.randn: a standard normal value from a uniform draw.
Randn(u) == <<-2, -1, -1, 0, 0, 1, 1, 2>>[u + 1]

\* Mutant of Bernoulli: the probability itself, no draw.
Bernoulli_prob(p, u) == p

\* Tensor.bernoulli(): 1 with probability p (in units of 1/PX), else 0.
Bernoulli(p, u) == IF u < p THEN 1 ELSE 0

\* sample() for a batch of B distributions d[b]: the draws are taken in
\* the order multinomial (B), z1 (B), z2 (B).
MixtureSample(d, g) ==
    LET B == Len(d)
        one(b) ==
            LET index == Multinomial([k \in 1..Len(d[b].log_pi) |-> Exp(d[b].log_pi[k])],
                                     At(g, b - 1), 1, 0)
                mu == d[b].mu[index]
                sigma == d[b].sigma[index]
                rho == d[b].rho[index]
                z1 == Randn(At(g, B + b - 1))
                z2 == Randn(At(g, 2 * B + b - 1))
                x1 == mu[1] + (sigma[1] * z1) \div FX
                mult == z2 * Sqrt1mRho2(rho) + z1 * rho
                x2 == mu[2] + (sigma[2] * mult) \div (FX * RX)
            IN [cls |-> IF Abs(rho) > RX THEN "nonfinite" ELSE "finite", x |-> <<x1, x2>>]
    IN [b \in 1..B |-> one(b)]

\* ------------------------------------------------------------- Seq2Seq
\* SimpleEncoder.forward: the embedding of each character id.
Emb(ch) == IF ch = 0 THEN 2 ELSE -1
SimpleEncoder(src, mask) == [b \in 1..Len(src) |-> [u \in 1..Len(src[b]) |-> Emb(src[b][u])]]

\* Mutant of MaskCtx: the encoder output without the mask.
MaskCtx_unmasked(enc, mask) == enc

\* self.enc(chars, chars_mask) * chars_mask.unsqueeze(-1)
MaskCtx(enc, mask) == [b \in 1..Len(enc) |-> [u \in 1..Len(enc[b]) |-> enc[b][u] * mask[b][u]]]

RECURSIVE Log2Floor(_)
Log2Floor(n) == IF n <= 1 THEN 0 ELSE 1 + Log2Floor(n \div 2)

\* F.log_softmax over the mixture axis, in powers of two.
LogSoftmax(pi) ==
    LET lse == Log2Floor(SumSeq([k \in 1..Len(pi) |-> Exp(pi[k])])) - 2
    IN [k \in 1..Len(pi) |-> pi[k] - lse]

\* out.split([2K, 2K, K, K, 1]), the exp / tanh / log_softmax transforms and
\* the views to (K, 2), for the output vector o of one (batch, time) position.
MixtureParams(o) ==
    LET K == n_mixtures_output
        mu == SubSeq(o, 1, 2 * K)
        sg == SubSeq(o, 2 * K + 1, 4 * K)
        pi == SubSeq(o, 4 * K + 1, 5 * K)
        rho == SubSeq(o, 5 * K + 1, 6 * K)
    IN [dist |-> MixtureOfBivariateNormal(
                    LogSoftmax(pi),
                    [k \in 1..K |-> <<mu[2 * k - 1], mu[2 * k]>>],
                    [k \in 1..K |-> <<Exp(sg[2 * k - 1]), Exp(sg[2 * k])>>],
                    [k \in 1..K |-> Tanh(rho[k])]),
        eos |-> o[6 * K + 1]]

vars == <<driver, n_layers, heap, pc, fr, prev_states, passed, snap, calls,
          chars, chars_mask, in_strokes, maxlen, rng, ctx, x_t, strokes, it,
          result, first_result, rounds, dist>>

\* ------------------------------------------------------------- inputs
Drivers == {"decoder", "sample", "forward", "dist"}
NoResult == [kind |-> "none", val |-> <<>>]
NoSnap == [h |-> <<>>, c |-> <<>>, w |-> <<>>, k |-> <<>>, ctxlen |-> 0]

\* Input tensors of shape (B, T, 3), (B, T) and (B, T), picked by a pattern.
StrokeTensor(B, Ts, q) ==
    [b \in 1..B |-> [t \in 1..Ts |->
        <<((b + t + q) % 3) - 1, ((b + 2 * t + q) % 3) - 1, (b + t + q) % 2>>]]
ContextTensor(B, T) == [b \in 1..B |-> [u \in 1..T |-> ((b + u) % 4) - 1]]
CharsTensor(B, T, q) == [b \in 1..B |-> [u \in 1..T |-> (b + u + q) % 2]]
MaskTensor(B, T, n) ==
    [b \in 1..B |-> [u \in 1..T |-> IF u <= (IF b = 1 THEN n ELSE T - n) THEN 1 ELSE 0]]

Init ==
    /\ driver \in Drivers
    /\ n_layers \in 1..MaxLayers
    /\ heap = <<>>
    /\ pc = "idle"
    /\ fr = NoFrame
    /\ prev_states = NoState
    /\ passed = NoState
    /\ snap = NoSnap
    /\ calls = 0
    /\ ctx = <<>>
    /\ x_t = <<>>
    /\ strokes = <<>>
    /\ it = 0
    /\ result = NoResult
    /\ first_result = NoResult
    /\ rounds = 0
    /\ dist = <<>>
    /\ IF driver \in {"sample", "forward"}
       THEN \E B \in BatchSizes, T \in 1..MaxCtx, q \in Vocab :
              /\ chars = CharsTensor(B, T, q)
              /\ \E n \in 0..T : chars_mask = MaskTensor(B, T, n)
              /\ IF driver = "forward"
                 THEN \E Ts \in 1..MaxLen : in_strokes = StrokeTensor(B, Ts, q)
                 ELSE in_strokes = <<>>
       ELSE chars = <<>> /\ chars_mask = <<>> /\ in_strokes = <<>>
    /\ IF driver = "sample" THEN maxlen \in 0..MaxLen ELSE maxlen = 0
    /\ IF driver \in {"sample", "dist"}
       THEN \E sd \in 0..MaxSeed : rng = [seed |-> sd, pos |-> 0]
       ELSE rng = [seed |-> 0, pos |-> 0]

seq2seq_vars == <<chars, chars_mask, in_strokes, maxlen, rng, ctx, x_t, strokes, it,
                  result, first_result, rounds, dist>>

\* ------------------------------------- a caller of RNNDecoder.forward
Snapshot(hp, st, f) ==
    [h |-> hp[st.h], c |-> hp[st.c], w |-> st.w, k |-> hp[st.k],
     ctxlen |-> Len(f.context[1])]

\* dec(strokes, context): the caller's first call, without prev_states.
DecCallFresh ==
    /\ driver = "decoder" /\ pc = "idle" /\ calls < MaxCalls
    /\ \E B \in BatchSizes, Ts \in 1..MaxLen, T \in 1..MaxCtx :
         \E m \in {DecEnter(heap, StrokeTensor(B, Ts, calls), ContextTensor(B, T), NoState)} :
            heap' = m.heap /\ fr' = m.fr
    /\ passed' = NoState /\ snap' = NoSnap
    /\ calls' = calls + 1
    /\ pc' = "dec_loop"
    /\ UNCHANGED <<driver, n_layers, prev_states>>
    /\ UNCHANGED seq2seq_vars

\* dec(strokes, context, prev_states) with the state the previous call
\* returned; the caller keeps a copy of what the state held.
DecCallCarried ==
    /\ driver = "decoder" /\ pc = "returned" /\ calls < MaxCalls
    /\ prev_states.some
    /\ \E B \in BatchSizes, Ts \in 1..MaxLen, T \in 1..MaxCtx :
         \E m \in {DecEnter(heap, StrokeTensor(B, Ts, calls), ContextTensor(B, T), prev_states)} :
            heap' = m.heap /\ fr' = m.fr
    /\ passed' = prev_states
    /\ snap' = Snapshot(heap, prev_states, fr)
    /\ calls' = calls + 1
    /\ pc' = "dec_loop"
    /\ UNCHANGED <<driver, n_layers, prev_states>>
    /\ UNCHANGED seq2seq_vars

\* One pass of the loop of line 145; an exception leaves the call.
DecStep ==
    /\ pc = "dec_loop" /\ fr.i < Len(fr.strokes[1])
    /\ \E m \in {DecIter([heap |-> heap, fr |-> fr])} :
          /\ heap' = m.heap
          /\ fr' = m.fr
          /\ pc' = IF m.fr.err = "none" THEN "dec_loop" ELSE "raised"
    /\ UNCHANGED <<driver, n_layers, prev_states, passed, snap, calls>>
    /\ UNCHANGED seq2seq_vars

\* Line 162; the caller stores the returned state.
DecReturn ==
    /\ pc = "dec_loop" /\ fr.i >= Len(fr.strokes[1])
    /\ prev_states' = DecResult([heap |-> heap, fr |-> fr]).states
    /\ pc' = "returned"
    /\ UNCHANGED <<driver, n_layers, heap, fr, passed, snap, calls>>
    /\ UNCHANGED seq2seq_vars

dec_vars == <<fr, passed, snap, calls>>

\* ------------------------------------------------------ Seq2Seq.forward
\* Index (from 1) of the ground-truth point that the output of time step t
\* is scored against.
TargetIndex(t) == t

ForwardLoss(strk, out) ==
    [stroke_loss |-> [b \in 1..Len(out) |-> [t \in 1..Len(out[b]) |->
        LogProb(MixtureParams(out[b][t]).dist,
                <<strk[b][TargetIndex(t)][1], strk[b][TargetIndex(t)][2]>>)]],
     eos_loss |-> [b \in 1..Len(out) |-> [t \in 1..Len(out[b]) |->
        [logit |-> MixtureParams(out[b][t]).eos, target |-> strk[b][t][3]]]]]

Forward ==
    /\ driver = "forward" /\ pc = "idle"
    /\ \E c \in {MaskCtx(SimpleEncoder(chars, chars_mask), chars_mask)} :
       \E r \in {RNNDecoder(heap, in_strokes, c, NoState)} :
          /\ ctx' = c
          /\ heap' = r.heap
          /\ IF r.err = "none"
             THEN result' = [kind |-> "forward", val |-> ForwardLoss(in_strokes, r.out)]
                  /\ pc' = "returned"
             ELSE result' = result /\ pc' = "raised"
    /\ UNCHANGED <<driver, n_layers, prev_states>>
    /\ UNCHANGED dec_vars
    /\ UNCHANGED <<chars, chars_mask, in_strokes, maxlen, rng, x_t, strokes, it,
                   first_result, rounds, dist>>

\* ------------------------------------------------------- Seq2Seq.sample
\* Mutant of SampleInitStates: the state the previous call left behind.
SampleInitStates_stale == prev_states

\* Line 205: the decoder state the generation loop starts from.
SampleInitStates == NoState

\* Mutant of SampleContinue: the loop also ends once a pen-lift is drawn.
SampleContinue_eos ==
    it < maxlen /\ ~(it >= 1 /\ \E b \in 1..Len(x_t) : x_t[b][1][3] = 1)

\* Line 207: for i in range(maxlen).
SampleContinue == it < maxlen

\* Lines 201-206.
SampleBegin ==
    /\ driver = "sample" /\ pc = "idle"
    /\ ctx' = MaskCtx(SimpleEncoder(chars, chars_mask), chars_mask)
    /\ x_t' = [b \in 1..Len(chars) |-> << <<0, 0, 0>> >>]
    /\ prev_states' = SampleInitStates
    /\ strokes' = <<>>
    /\ it' = 0
    /\ rounds' = rounds + 1
    /\ pc' = "sample_loop"
    /\ UNCHANGED <<driver, n_layers, heap>>
    /\ UNCHANGED dec_vars
    /\ UNCHANGED <<chars, chars_mask, in_strokes, maxlen, rng, result, first_result, dist>>

\* The pen-lift draw of line 223 for a batch, after the 3B draws of sample().
PenLift(eos, g) ==
    [b \in 1..Len(eos) |-> Bernoulli(Sigmoid(eos[b]), At(g, 3 * Len(eos) + b - 1))]

\* Lines 221-224: the next input point, of shape (B, 1, 3).
NextPoint(smp, pen) ==
    [b \in 1..Len(smp) |-> << <<smp[b].x[1], smp[b].x[2], pen[b]>> >>]

\* Mutant of SampleIter: the point is appended after it is drawn.
SampleIter_appendDrawn ==
    /\ pc = "sample_loop" /\ SampleContinue
    /\ \E r \in {RNNDecoder(heap, x_t, ctx, prev_states)} :
       \E P \in {[b \in 1..Len(r.out) |-> MixtureParams(r.out[b][1])]} :
       LET smp == MixtureSample([b \in 1..Len(P) |-> P[b].dist], rng)
           pen == PenLift([b \in 1..Len(P) |-> P[b].eos], rng)
       IN /\ heap' = r.heap
          /\ IF r.err = "none"
             THEN /\ prev_states' = r.states
                  /\ x_t' = NextPoint(smp, pen)
                  /\ strokes' = Append(strokes, NextPoint(smp, pen))
                  /\ rng' = Advance(rng, 4 * Len(P))
                  /\ it' = it + 1
                  /\ pc' = "sample_loop"
             ELSE /\ UNCHANGED <<prev_states, x_t, rng, it, strokes>>
                  /\ pc' = "raised"
    /\ UNCHANGED <<driver, n_layers>>
    /\ UNCHANGED dec_vars
    /\ UNCHANGED <<chars, chars_mask, in_strokes, maxlen, ctx, result, first_result,
                   rounds, dist>>

\* Lines 207-224: one pass of the generation loop.
SampleIter ==
    /\ pc = "sample_loop" /\ SampleContinue
    /\ strokes' = Append(strokes, x_t)
    /\ \E r \in {RNNDecoder(heap, x_t, ctx, prev_states)} :
       \E P \in {[b \in 1..Len(r.out) |-> MixtureParams(r.out[b][1])]} :
       LET smp == MixtureSample([b \in 1..Len(P) |-> P[b].dist], rng)
           pen == PenLift([b \in 1..Len(P) |-> P[b].eos], rng)
       IN /\ heap' = r.heap
          /\ IF r.err = "none"
             THEN /\ prev_states' = r.states
                  /\ x_t' = NextPoint(smp, pen)
                  /\ rng' = Advance(rng, 4 * Len(P))
                  /\ it' = it + 1
                  /\ pc' = "sample_loop"
             ELSE /\ UNCHANGED <<prev_states, x_t, rng, it>>
                  /\ pc' = "raised"
    /\ UNCHANGED <<driver, n_layers>>
    /\ UNCHANGED dec_vars
    /\ UNCHANGED <<chars, chars_mask, in_strokes, maxlen, ctx, result, first_result,
                   rounds, dist>>

\* torch.cat(strokes, 1) of a list of (B, 1, 3) tensors.
RECURSIVE CatTime(_, _)
CatTime(list, b) == IF list = <<>> THEN <<>> ELSE Head(list)[b] \o CatTime(Tail(list), b)

\* Line 226; torch.cat of an empty list raises.
SampleReturn ==
    /\ pc = "sample_loop" /\ ~SampleContinue
    /\ IF strokes = <<>>
       THEN pc' = "raised" /\ result' = result
       ELSE /\ result' = [kind |-> "sample",
                          val |-> [b \in 1..Len(strokes[1]) |-> CatTime(strokes, b)]]
            /\ pc' = "returned"
    /\ UNCHANGED <<driver, n_layers, heap, prev_states>>
    /\ UNCHANGED dec_vars
    /\ UNCHANGED <<chars, chars_mask, in_strokes, maxlen, rng, ctx, x_t, strokes, it,
                   first_result, rounds, dist>>

\* The caller keeps the first result, puts the random source back into the
\* state it had before the first call, and is ready to call sample again.
Reseed ==
    /\ driver = "sample" /\ pc = "returned" /\ rounds = 1
    /\ first_result' = result
    /\ rng' = [rng EXCEPT !.pos = 0]
    /\ pc' = "idle"
    /\ UNCHANGED <<driver, n_layers, heap, prev_states>>
    /\ UNCHANGED dec_vars
    /\ UNCHANGED <<chars, chars_mask, in_strokes, maxlen, ctx, x_t, strokes, it,
                   result, rounds, dist>>

\* ------------------------- a caller of MixtureOfBivariateNormal itself
SigmaVals == {-4, 0, 4}
RhoVals == {-6, -5, 0, 3, 5}
Points == {<<0, 0>>, <<1, -1>>}

DistInit ==
    /\ driver = "dist" /\ pc = "idle"
    /\ \E sg \in SigmaVals, rh \in RhoVals :
         dist' = MixtureOfBivariateNormal(
                    [k \in 1..n_mixtures_output |-> -1],
                    [k \in 1..n_mixtures_output |-> <<k, -k>>],
                    [k \in 1..n_mixtures_output |-> <<sg, 4>>],
                    [k \in 1..n_mixtures_output |-> rh])
    /\ pc' = "dist_built"
    /\ UNCHANGED <<driver, n_layers, heap, prev_states>>
    /\ UNCHANGED dec_vars
    /\ UNCHANGED <<chars, chars_mask, in_strokes, maxlen, rng, ctx, x_t, strokes, it,
                   result, first_result, rounds>>

DistLogProb ==
    /\ driver = "dist" /\ pc = "dist_built"
    /\ \E x \in Points : result' = [kind |-> "log_prob", val |-> LogProb(dist, x)]
    /\ pc' = "returned"
    /\ UNCHANGED <<driver, n_layers, heap, prev_states>>
    /\ UNCHANGED dec_vars
    /\ UNCHANGED <<chars, chars_mask, in_strokes, maxlen, rng, ctx, x_t, strokes, it,
                   first_result, rounds, dist>>

DistSample ==
    /\ driver = "dist" /\ pc = "dist_built"
    /\ result' = [kind |-> "dist_sample", val |-> MixtureSample(<<dist>>, rng)]
    /\ rng' = Advance(rng, 3)
    /\ pc' = "returned"
    /\ UNCHANGED <<driver, n_layers, heap, prev_states>>
    /\ UNCHANGED dec_vars
    /\ UNCHANGED <<chars, chars_mask, in_strokes, maxlen, ctx, x_t, strokes, it,
                   first_result, rounds, dist>>

Next ==
    \/ DecCallFresh
    \/ DecCallCarried
    \/ DecStep
    \/ DecReturn
    \/ Forward
    \/ SampleBegin
    \/ SampleIter
    \/ SampleReturn
    \/ Reseed
    \/ DistInit
    \/ DistLogProb
    \/ DistSample

Spec == Init /\ [][Next]_vars

\* ====================================================== properties
StepTaken == pc = "dec_loop" /\ pc' = "dec_loop" /\ fr'.i = fr.i + 1

KappaGeq(a, b) ==
    /\ Len(a) = Len(b)
    /\ \A e \in 1..Len(a) : \A k \in 1..n_mixtures_attention : a[e][k] >= b[e][k]

KappaInit(B) == [b \in 1..B |-> [k \in 1..n_mixtures_attention |-> k_0(k)]]

\* ---- C1 ----
\* The step as section 4.3 a-c describes it: layer 0, the attention, then
\* every layer j >= 1 on the new h_{j-1} and its own previous (h_j, c_j).
RECURSIVE ChainedLayers(_, _, _, _, _, _)
ChainedLayers(hp, f, xt, w, j, acc) ==
    IF j > n_layers - 1 THEN acc
    ELSE LET inp == [b \in 1..Len(xt) |-> xt[b] \o <<w[b]>> \o <<acc.h[j][b]>>]
             r == CellBatch(j, inp, hp[f.h][j + 1], hp[f.c][j + 1])
         IN ChainedLayers(hp, f, xt, w, j + 1,
                          [h |-> Append(acc.h, r.h), c |-> Append(acc.c, r.c)])

ChainedStep(hp, f) ==
    LET xt == [b \in 1..Len(f.strokes) |-> f.strokes[b][f.i + 1]]
        inp0 == [b \in 1..Len(xt) |-> xt[b] \o <<f.w[b]>>]
    IN Bind(CellBatch(0, inp0, hp[f.h][1], hp[f.c][1]), LAMBDA r0 :
       Bind(GaussianAttention(hp, r0.h, f.k, f.context), LAMBDA att :
          ChainedLayers(hp, f, xt, att.w, 1, [h |-> <<r0.h>>, c |-> <<r0.c>>])))

\* C1: in every time step with N >= 2 layers, slot 0 holds the output of
\* layer 0 and every slot j in 1..N-1 holds the output of layer j computed in
\* that step from the stroke point, the new context vector, the new h_{j-1}
\* and the previous (h_j, c_j).
C1_LayersChained ==
    [][(StepTaken /\ n_layers >= 2) =>
          \E want \in {ChainedStep(heap, fr)} :
              /\ heap'[fr.h] = want.h
              /\ heap'[fr.c] = want.c]_vars

\* ---- C2 ----
\* C2: kappa never decreases: every step's kappa is at least the previous
\* kappa in every component, a call without carried state starts from k_0, a
\* call with carried state starts from the kappa the previous call returned,
\* and the same holds from one pass of the generation loop to the next.
C2_KappaNonDecreasing ==
    [][/\ StepTaken => KappaGeq(heap'[fr'.k], heap[fr.k])
       /\ (pc' = "dec_loop" /\ pc # "dec_loop" /\ ~passed'.some)
             => heap'[fr'.k] = KappaInit(Len(fr'.strokes))
       /\ (pc' = "dec_loop" /\ pc # "dec_loop" /\ passed'.some)
             => heap'[fr'.k] = heap[prev_states.k]
       /\ (pc = "dec_loop" /\ pc' = "returned")
             => heap'[prev_states'.k] = heap[fr.k]
       /\ (pc = "sample_loop" /\ pc' = "sample_loop" /\ it' = it + 1)
             => KappaGeq(heap'[prev_states'.k],
                         IF prev_states.some THEN heap[prev_states.k]
                         ELSE KappaInit(Len(x_t)))]_vars

\* A second call with carried state has returned and kappa has advanced in it.
C2_Witness ==
    /\ driver = "decoder" /\ pc = "returned" /\ passed.some
    /\ fr.i >= 2
    /\ \A b \in 1..Len(snap.k) : \A k \in 1..n_mixtures_attention :
          heap[prev_states.k][b][k] > snap.k[b][k]

\* ---- C10 ----
\* C10 as claimed: after a call with carried state, every element of the
\* h-list and c-list that was passed in, its context vector and its kappa
\* hold the values they had before the call.
C10_PassedStateUnchanged ==
    (driver = "decoder" /\ pc = "returned" /\ passed.some) =>
        /\ heap[passed.h] = snap.h
        /\ heap[passed.c] = snap.c
        /\ passed.w = snap.w
        /\ heap[passed.k] = snap.k

\* C10 amended: the context vector and the kappa tensor that were passed in
\* keep their values, and the h-list and c-list of the returned state are the
\* very lists that were passed in (they are updated in place).
C10_ListsUpdatedInPlace ==
    (driver = "decoder" /\ pc = "returned" /\ passed.some) =>
        /\ passed.w = snap.w
        /\ heap[passed.k] = snap.k
        /\ prev_states.h = passed.h
        /\ prev_states.c = passed.c
        /\ prev_states.k # passed.k

\* A call with carried state has returned and the lists that were passed in
\* no longer hold what they held before the call.
C10_Witness ==
    /\ driver = "decoder" /\ pc = "returned" /\ passed.some
    /\ heap[passed.h] # snap.h
    /\ heap[passed.c] # snap.c

\* ---- C5 ----
CallEnded == pc \in {"returned", "raised"}

\* C5: a decoder call with carried state of another batch size, a decoder
\* call with carried state and a context of another length than in the call
\* before, and log_prob or sample on a distribution with a non-positive
\* standard deviation or a correlation outside (-1, 1) all raise and yield
\* no result.
C5_ViolationsFailFast ==
    /\ (driver = "decoder" /\ passed.some /\ Len(fr.strokes) # Len(passed.w))
          => (pc # "returned" /\ fr.outputs = <<>>)
    /\ (driver = "decoder" /\ passed.some /\ Len(fr.context[1]) # snap.ctxlen)
          => (pc # "returned" /\ fr.outputs = <<>>)
    /\ (driver = "dist" /\ dist # <<>>
          /\ \E k \in 1..n_mixtures_output :
                dist.sigma[k][1] <= 0 \/ Abs(dist.rho[k]) >= RX)
          => pc # "returned"

\* ---- C3 ----
SampleEnded == driver = "sample" /\ pc \in {"returned", "raised"}

IsShape(seq, B, T) ==
    /\ Len(seq) = B
    /\ \A b \in 1..B : Len(seq[b]) = T /\ \A t \in 1..T : Len(seq[b][t]) = 3

\* C3 as claimed: whatever maxlen and whatever is sampled, sample ends after
\* exactly maxlen decoder steps by returning a sequence of shape
\* (batch, maxlen, 3).
C3_ReturnsMaxlenPoints ==
    SampleEnded =>
        /\ pc = "returned"
        /\ it = maxlen
        /\ IsShape(result.val, Len(chars), maxlen)

\* C3 amended: for maxlen >= 1 sample ends after exactly maxlen decoder steps
\* by returning a sequence of shape (batch, maxlen, 3); for maxlen = 0 it
\* makes no decoder step and raises (torch.cat of an empty list).
C3_ReturnsMaxlenPointsFrom1 ==
    SampleEnded =>
        /\ it = maxlen
        /\ maxlen >= 1 => (pc = "returned" /\ IsShape(result.val, Len(chars), maxlen))
        /\ maxlen = 0 => pc = "raised"

\* A call with maxlen >= 2 has returned although a pen-lift of 1 was drawn
\* before the last pass.
C3_Witness ==
    /\ driver = "sample" /\ pc = "returned" /\ maxlen >= 2 /\ it = maxlen
    /\ \E b \in 1..Len(result.val) : \E t \in 1..(maxlen - 1) : result.val[b][t][3] = 1

\* ---- C4 ----
\* C4: the third channel of every point of the returned sequence, the first
\* included, is 0 or 1.
C4_PenLiftIsBinary ==
    (driver = "sample" /\ pc = "returned") =>
        \A b \in 1..Len(result.val) : \A t \in 1..Len(result.val[b]) :
            result.val[b][t][3] \in {0, 1}

\* A returned sequence in which both a drawn 0 and a drawn 1 occur.
C4_Witness ==
    /\ driver = "sample" /\ pc = "returned" /\ maxlen >= 3
    /\ \E b \in 1..Len(result.val) :
          /\ \E t \in 2..maxlen : result.val[b][t][3] = 1
          /\ \E t \in 2..maxlen : result.val[b][t][3] = 0

\* ---- C9 ----
IterTaken == pc = "sample_loop" /\ pc' = "sample_loop" /\ it' = it + 1

\* C9 as claimed: the point formed in a pass of the generation loop is the
\* last point of the output sequence after that pass.
C9_DrawnPointAppended ==
    [][IterTaken => (strokes' # <<>> /\ strokes'[Len(strokes')] = x_t')]_vars

\* C9 amended: a pass appends the point it takes as input (the all-zero
\* start point in pass 0, afterwards the point drawn one pass earlier) and
\* only then draws; the returned sequence is the list so collected, so it
\* starts with the start point and has maxlen points.
C9_InputPointAppended ==
    [][/\ IterTaken => strokes' = Append(strokes, x_t)
       /\ (pc = "idle" /\ pc' = "sample_loop")
             => (strokes' = <<>> /\ \A b \in 1..Len(x_t') : x_t'[b] = << <<0, 0, 0>> >>)
       /\ (pc = "sample_loop" /\ pc' = "returned")
             => /\ Len(strokes) = maxlen
                /\ \A b \in 1..Len(result'.val) : \A t \in 1..maxlen :
                      result'.val[b][t] = strokes[t][b][1]]_vars

\* A call with maxlen >= 2 has returned: a drawn point is in the sequence and
\* the point drawn in the last pass differs from the last point returned.
C9_Witness ==
    /\ driver = "sample" /\ pc = "returned" /\ maxlen >= 2
    /\ result.val[1][2] # <<0, 0, 0>>
    /\ x_t[1][1] # result.val[1][maxlen]

\* ---- C7 ----
\* C7: a second call of sample with the same inputs and the random source
\* put back into the state of the first call returns what the first returned.
C7_SampleDeterministic ==
    (driver = "sample" /\ pc = "returned" /\ rounds = 2) => result = first_result

\* The second call has returned a sequence with drawn points in it.
C7_Witness ==
    /\ driver = "sample" /\ pc = "returned" /\ rounds = 2 /\ maxlen >= 3
    /\ result.val[1][2] # result.val[1][3]

\* ---- C6 ----
\* The encoder output with other values at the padded positions.
EncOther(enc, mask, v) ==
    [b \in 1..Len(enc) |-> [u \in 1..Len(enc[b]) |-> IF mask[b][u] = 1 THEN enc[b][u] ELSE v]]

RealSum(phi, enc, mask) ==
    [b \in 1..Len(enc) |->
        SumSeq([u \in 1..Len(enc[b]) |-> IF mask[b][u] = 1 THEN phi[b][u] * enc[b][u] ELSE 0])]

\* The decoder call that sample or forward makes from the current state, run
\* on context cx.
CallOn(cx) ==
    IF driver = "sample" THEN DecLoop(DecEnter(heap, x_t, cx, prev_states))
    ELSE DecLoop(DecEnter(<<>>, in_strokes, cx, NoState))

\* C6: the context is zero at the padded positions, the context vector the
\* attention returns is the phi-weighted sum of the encoder output over the
\* real characters alone, and the decoder returns the same outputs and the
\* same context vector whatever the encoder produced at padded positions.
C6_PaddingContributesNothing ==
    ((driver = "sample" /\ pc = "sample_loop" /\ SampleContinue)
        \/ (driver = "forward" /\ pc = "returned")) =>
        \E enc \in {SimpleEncoder(chars, chars_mask)} : \E m \in {CallOn(ctx)} :
            /\ \A b \in 1..Len(ctx) : \A u \in 1..Len(ctx[b]) :
                  chars_mask[b][u] = 0 => ctx[b][u] = 0
            /\ m.fr.w = RealSum(m.fr.phi, enc, chars_mask)
            /\ \A v \in {-2, 3} :
                  \E o \in {CallOn(MaskCtx(EncOther(enc, chars_mask, v), chars_mask))} :
                      o.fr.w = m.fr.w /\ o.fr.outputs = m.fr.outputs

\* A pass of the generation loop is about to run with a padded position that
\* the attention gives weight to.
C6_Witness ==
    /\ driver = "sample" /\ pc = "sample_loop" /\ SampleContinue /\ it >= 1
    /\ \E m \in {CallOn(ctx)} : \E b \in 1..Len(ctx) : \E u \in 1..Len(ctx[b]) :
          chars_mask[b][u] = 0 /\ m.fr.phi[b][u] > 0 /\ m.fr.w[b] # 0

\* ---- C8 ----
\* C8: in forward the distribution emitted after consuming point t is
\* scored against point t+1 of the ground truth, like sample draws point t+1
\* from it.
C8_ScoredAgainstNextPoint ==
    (driver = "forward" /\ pc = "returned") =>
        \A b \in 1..Len(in_strokes) : \A t \in 1..(Len(in_strokes[b]) - 1) :
            /\ result.val.stroke_loss[b][t].x = <<in_strokes[b][t + 1][1], in_strokes[b][t + 1][2]>>
            /\ result.val.eos_loss[b][t].target = in_strokes[b][t + 1][3]

====
